---------------------------- MODULE Spec2Model ----------------------------
(***************************************************************************)
(* A model of the blob storage gateway (apps/uploader): the three storage  *)
(* backends (LocalStorage, DBStorage, S3HTTPStorage), the backend selector *)
(* pick_storage, the blob service (save_blob / get_blob) and the two views *)
(* (create_blob / retrieve_blob).                                          *)
(*                                                                         *)
(* Strings are sequences of one-character strings, byte strings are        *)
(* sequences of integers in 0..255.  Blob identifiers are sequences of     *)
(* path segments: <<"a", "b">> is the identifier "a/b".                    *)
(*                                                                         *)
(* Five specifications share the state:                                    *)
(*   SpecBackend  the backend objects called directly, one call at a time  *)
(*   Spec         the service, one request at a time                       *)
(*   SpecConc     the service under request-parallel scheduling: a request *)
(*                advances from one await to the next, requests interleave *)
(*                and a request may die between two awaits                 *)
(*   SpecReconfig the service, one request at a time, restarted under      *)
(*                another STORAGE_BACKEND between requests                 *)
(*   SpecAddress  S3HTTPStorage constructed with any endpoint, bucket,     *)
(*                credentials and addressing mode, called directly         *)
(***************************************************************************)
EXTENDS Integers, Sequences, FiniteSets, Bags, TLC

VARIABLES
    STORAGE_BACKEND,  \* config.settings.STORAGE_BACKEND
    fs,               \* the tree under LOCAL_STORAGE_PATH: path -> node
    blobs_data,       \* table blobs_data (BlobData): id -> row
    s3_objects,       \* the objects held by the S3 endpoint: url -> body
    blobs_meta,       \* table blobs_meta (BlobMeta): id -> row
    now,              \* the clock read by auto_now_add
    overwritten,      \* history: id -> bytes were written over bytes stored under id
    calls,            \* the requests in flight, each suspended at an await
    started,          \* how many requests SpecConc has let in
    s3,               \* the S3HTTPStorage object that is constructed
    request,          \* the last request S3HTTPStorage handed to httpx
    ret               \* what the last finished call returned or raised

vars == <<STORAGE_BACKEND, fs, blobs_data, s3_objects, blobs_meta, now, overwritten,
          calls, started, s3, request, ret>>

-----------------------------------------------------------------------------
(* Bounds and inputs *)

\* longest payload (in bytes) a request of Spec / SpecBackend carries
MaxLen == 3

\* longest payload (in bytes) a request of SpecConc carries
MaxConcLen == 2

\* most requests in flight at once in SpecConc
MaxCalls == 2

\* most requests SpecConc lets in
MaxRequests == 3

\* the bytes payloads are cut from: the first bytes of a PNG file
Sample == <<137, 80, 78, 71, 13>>

Take(s, n) == SubSeq(s, 1, n)

Blobs(n) == { Take(Sample, k) : k \in 1..n }

\* the identifiers requests use: "a" and "a/b"
Ids == { <<"a">>, <<"a", "b">> }

None == "None"

-----------------------------------------------------------------------------
(* base64, as the standard library computes it *)

B64Alphabet ==
    << "A","B","C","D","E","F","G","H","I","J","K","L","M","N","O","P",
       "Q","R","S","T","U","V","W","X","Y","Z","a","b","c","d","e","f",
       "g","h","i","j","k","l","m","n","o","p","q","r","s","t","u","v",
       "w","x","y","z","0","1","2","3","4","5","6","7","8","9","+","/" >>

\* the characters payload strings are written with
Chars == { B64Alphabet[i] : i \in 1..64 } \cup { "=", ":", ";", ",", "-" }

\* binascii's decoding table: the 6-bit value of a character of the
\* alphabet, 255 for any other character
table_a2b_base64 ==
    [ c \in Chars |->
        IF \E i \in 1..64 : B64Alphabet[i] = c
        THEN (CHOOSE i \in 1..64 : B64Alphabet[i] = c) - 1
        ELSE 255 ]

RECURSIVE b2a_base64(_)
\* base64.b64encode: three bytes to four characters, "=" padded
b2a_base64(data) ==
    IF Len(data) = 0 THEN << >>
    ELSE IF Len(data) = 1 THEN
        << B64Alphabet[(data[1] \div 4) + 1],
           B64Alphabet[((data[1] % 4) * 16) + 1], "=", "=" >>
    ELSE IF Len(data) = 2 THEN
        << B64Alphabet[(data[1] \div 4) + 1],
           B64Alphabet[((data[1] % 4) * 16 + data[2] \div 16) + 1],
           B64Alphabet[((data[2] % 16) * 4) + 1], "=" >>
    ELSE
        << B64Alphabet[(data[1] \div 4) + 1],
           B64Alphabet[((data[1] % 4) * 16 + data[2] \div 16) + 1],
           B64Alphabet[((data[2] % 16) * 4 + data[3] \div 64) + 1],
           B64Alphabet[(data[3] % 64) + 1] >>
        \o b2a_base64(SubSeq(data, 4, Len(data)))

b64encode(data) == b2a_base64(data)

Decoded(bytes) == [ok |-> TRUE, data |-> bytes]
DecodeError == [ok |-> FALSE, data |-> << >>]

RECURSIVE a2b_base64(_, _, _, _, _, _)
\* binascii.a2b_base64 in its default (non-strict) mode, as b64decode
\* calls it with validate=False: characters outside the alphabet are
\* skipped, a completed pad sequence ends the parse, and a quad left open
\* at the end of the input is an error
a2b_base64(s, i, quad_pos, leftchar, pads, out) ==
    IF i > Len(s) THEN
        IF quad_pos # 0 THEN DecodeError ELSE Decoded(out)
    ELSE IF s[i] = "=" THEN
        IF quad_pos >= 2 /\ quad_pos + pads + 1 >= 4
        THEN Decoded(out)
        ELSE a2b_base64(s, i + 1, quad_pos, leftchar,
                        IF quad_pos >= 2 THEN pads + 1 ELSE pads, out)
    ELSE IF table_a2b_base64[s[i]] >= 64 THEN
        a2b_base64(s, i + 1, quad_pos, leftchar, pads, out)
    ELSE
        LET this_ch == table_a2b_base64[s[i]] IN
        CASE quad_pos = 0 ->
                a2b_base64(s, i + 1, 1, this_ch, 0, out)
          [] quad_pos = 1 ->
                a2b_base64(s, i + 1, 2, this_ch % 16, 0,
                           Append(out, (leftchar * 4 + this_ch \div 16) % 256))
          [] quad_pos = 2 ->
                a2b_base64(s, i + 1, 3, this_ch % 4, 0,
                           Append(out, (leftchar * 16 + this_ch \div 4) % 256))
          [] quad_pos = 3 ->
                a2b_base64(s, i + 1, 0, 0, 0,
                           Append(out, (leftchar * 64 + this_ch) % 256))

\* base64.b64decode(data_b64)
b64decode(s) == a2b_base64(s, 1, 0, 0, 0, << >>)

-----------------------------------------------------------------------------
(* Results of calls *)

NoResult ==
    [kind |-> "none", exc |-> None, status |-> 0, text |-> "",
     data |-> << >>, size |-> 0, created_at |-> 0]

\* a call that returned without a value
Ok == [NoResult EXCEPT !.kind = "ok"]

\* a call that returned None
ReturnNone == NoResult

\* a backend get that returned bytes
ReturnBytes(bytes) == [NoResult EXCEPT !.kind = "bytes", !.data = bytes]

\* a call that raised
Raise(exc) == [NoResult EXCEPT !.kind = "raise", !.exc = exc]

\* IntegrityError: the INSERT broke the primary key of this table
RaiseIntegrityError(table) ==
    [NoResult EXCEPT !.kind = "raise", !.exc = "IntegrityError", !.text = table]

\* RuntimeError(f"S3 ... failed: {resp.status_code} {resp.text}")
RaiseRuntimeError(resp) ==
    [NoResult EXCEPT !.kind = "raise", !.exc = "RuntimeError",
                     !.status = resp.status_code, !.text = resp.text]

-----------------------------------------------------------------------------
(* LocalStorage: files under base_path *)

Front(path) == SubSeq(path, 1, Len(path) - 1)

\* every path below base_path an identifier can name or pass through
Paths == UNION { { SubSeq(id, 1, k) : k \in 1..Len(id) } : id \in Ids }

NoNode == [kind |-> "none", data |-> << >>]
DirNode == [kind |-> "dir", data |-> << >>]
FileNode(bytes) == [kind |-> "file", data |-> bytes]

\* the node at base_path/path; base_path itself is a directory
NodeAt(tree, path) == IF path = << >> THEN DirNode ELSE tree[path]

\* os.path.exists
exists(tree, path) == NodeAt(tree, path).kind # "none"

\* what a call on the tree leaves and returns
Made(tree) == [tree |-> tree, result |-> Ok]
Failed(tree, exc) == [tree |-> tree, result |-> Raise(exc)]

\* os.mkdir, with makedirs' handling of exist_ok=True
mkdir(tree, path) ==
    IF NodeAt(tree, Front(path)).kind # "dir"
    THEN Failed(tree, IF NodeAt(tree, Front(path)).kind = "file"
                      THEN "NotADirectoryError" ELSE "FileNotFoundError")
    ELSE IF NodeAt(tree, path).kind = "dir" THEN Made(tree)
    ELSE IF NodeAt(tree, path).kind = "file" THEN Failed(tree, "FileExistsError")
    ELSE Made([tree EXCEPT ![path] = DirNode])

RECURSIVE makedirs(_, _)
\* os.makedirs(dirpath, exist_ok=True)
makedirs(tree, path) ==
    IF path = << >> THEN Made(tree)
    ELSE IF ~exists(tree, Front(path))
    THEN LET up == makedirs(tree, Front(path)) IN
         IF up.result.exc \notin {None, "FileExistsError"} THEN up
         ELSE mkdir(up.tree, path)
    ELSE mkdir(tree, path)

\* open(path, 'wb') and f.write(data)
open_wb(tree, path, bytes) ==
    IF NodeAt(tree, Front(path)).kind # "dir"
    THEN Failed(tree, "NotADirectoryError")
    ELSE IF NodeAt(tree, path).kind = "dir" THEN Failed(tree, "IsADirectoryError")
    ELSE Made([tree EXCEPT ![path] = FileNode(bytes)])

\* LocalStorage.put: the tree it leaves and the exception it raises, if any
LocalStorage_put(tree, blob_id, bytes) ==
    LET dirs == makedirs(tree, Front(blob_id)) IN
    IF dirs.result.kind = "raise" THEN dirs
    ELSE open_wb(dirs.tree, blob_id, bytes)

\* LocalStorage.get
LocalStorage_get(tree, blob_id) ==
    IF ~exists(tree, blob_id) THEN ReturnNone
    ELSE IF NodeAt(tree, blob_id).kind = "dir" THEN Raise("IsADirectoryError")
    ELSE ReturnBytes(NodeAt(tree, blob_id).data)

-----------------------------------------------------------------------------
(* DBStorage: table blobs_data; BlobMeta: table blobs_meta *)

NoRow == [present |-> FALSE, data |-> << >>]
DataRow(bytes) == [present |-> TRUE, data |-> bytes]

\* existing = await BlobData.filter(id=blob_id).first()
DBStorage_put_read(table, blob_id) == table[blob_id].present

\* what a statement leaves in the table and returns
Written(table) == [table |-> table, result |-> Ok]
Refused(table, constraint) == [table |-> table, result |-> RaiseIntegrityError(constraint)]

\* the write of DBStorage.put and the commit of its transaction: an UPDATE
\* of the row read, or an INSERT, which the primary key refuses when a row
\* with this id has been committed since the read
DBStorage_put_write(table, existing, blob_id, bytes) ==
    IF existing THEN Written([table EXCEPT ![blob_id] = DataRow(bytes)])
    ELSE IF table[blob_id].present THEN Refused(table, "blobs_data.id")
    ELSE Written([table EXCEPT ![blob_id] = DataRow(bytes)])

\* DBStorage.put run without interruption
DBStorage_put(table, blob_id, bytes) ==
    DBStorage_put_write(table, DBStorage_put_read(table, blob_id), blob_id, bytes)

\* DBStorage.get
DBStorage_get(table, blob_id) ==
    IF ~table[blob_id].present THEN ReturnNone
    ELSE ReturnBytes(table[blob_id].data)

NoMeta == [present |-> FALSE, size |-> 0, backend |-> None, created_at |-> 0]
MetaRow(size, backend, created_at) ==
    [present |-> TRUE, size |-> size, backend |-> backend, created_at |-> created_at]

\* await BlobMeta.create(id=blob_id, size=size, backend=backend): an INSERT,
\* which the primary key refuses when the id has a row
BlobMeta_create(table, blob_id, size, backend, clock) ==
    IF table[blob_id].present THEN Refused(table, "blobs_meta.id")
    ELSE Written([table EXCEPT ![blob_id] = MetaRow(size, backend, clock)])

-----------------------------------------------------------------------------
(* S3HTTPStorage: one HTTP request per call *)

\* str.rstrip(chars)
RECURSIVE rstrip(_, _)
rstrip(s, chars) ==
    IF s # << >> /\ s[Len(s)] \in chars
    THEN rstrip(SubSeq(s, 1, Len(s) - 1), chars)
    ELSE s

\* whether s has sub at index i
StartsWithAt(s, i, sub) ==
    /\ i + Len(sub) - 1 <= Len(s)
    /\ SubSeq(s, i, i + Len(sub) - 1) = sub

\* str.replace(old, new): every occurrence of old, from the left, without
\* overlap
RECURSIVE replace(_, _, _)
replace(s, old, new) ==
    IF s = << >> THEN << >>
    ELSE IF StartsWithAt(s, 1, old)
    THEN new \o replace(SubSeq(s, Len(old) + 1, Len(s)), old, new)
    ELSE <<s[1]>> \o replace(Tail(s), old, new)

\* the index of the first character of s that is in chars, Len(s) + 1 if
\* there is none
FirstOf(s, chars) ==
    IF \E i \in 1..Len(s) : s[i] \in chars
    THEN CHOOSE i \in 1..Len(s) : s[i] \in chars /\ \A j \in 1..(i - 1) : s[j] \notin chars
    ELSE Len(s) + 1

\* urllib.parse.urlparse: the scheme before the first ":", the netloc
\* between "//" and the first of "/", "?", "#", and the path up to the first
\* of "?", "#"
urlparse(url) ==
    LET colon  == FirstOf(url, {":"})
        scheme == IF colon > 1 /\ colon <= Len(url)
                        /\ \A j \in 1..(colon - 1) : url[j] \notin {"/", "?", "#"}
                  THEN SubSeq(url, 1, colon - 1) ELSE << >>
        rest   == IF scheme # << >> THEN SubSeq(url, colon + 1, Len(url)) ELSE url
        after  == IF StartsWithAt(rest, 1, <<"/", "/">>)
                  THEN SubSeq(rest, 3, Len(rest)) ELSE << >>
        cut    == FirstOf(after, {"/", "?", "#"})
        netloc == IF StartsWithAt(rest, 1, <<"/", "/">>)
                  THEN SubSeq(after, 1, cut - 1) ELSE << >>
        tail   == IF StartsWithAt(rest, 1, <<"/", "/">>)
                  THEN SubSeq(after, cut, Len(after)) ELSE rest
    IN  [scheme |-> scheme, netloc |-> netloc,
         path |-> SubSeq(tail, 1, FirstOf(tail, {"?", "#"}) - 1)]

\* a blob id as the string its segments spell: <<"a", "b">> is "a/b"
RECURSIVE Str(_)
Str(blob_id) ==
    IF Len(blob_id) <= 1 THEN blob_id
    ELSE <<Head(blob_id), "/">> \o Str(Tail(blob_id))

\* the settings pick_storage constructs S3HTTPStorage with
S3_ENDPOINT == <<"h", "t", "t", "p", "s", ":", "/", "/", "e", "x", "a", "m", "p", "l", "e", ".", "c", "o", "m">>
S3_BUCKET == <<"b">>
S3_ACCESS_KEY == <<"a">>
S3_SECRET_KEY == <<"s">>
virtual_host == FALSE

\* S3HTTPStorage.__init__
S3HTTPStorage_init(endpoint, bucket, access_key, secret_key, vhost) ==
    [endpoint |-> rstrip(endpoint, {"/"}),
     bucket |-> bucket,
     access_key |-> access_key,
     secret_key |-> secret_key,
     virtual_host |-> vhost,
     host |-> urlparse(rstrip(endpoint, {"/"})).netloc]

\* _make_url_and_path: the URL requested and the canonical path signed
S3HTTPStorage_make_url_and_path(self, blob_id) ==
    IF self.virtual_host
    THEN [url  |-> replace(self.endpoint, <<"/", "/">>, <<"/", "/">> \o self.bucket \o <<".">>)
                       \o <<"/">> \o blob_id,
          path |-> <<"/">> \o blob_id]
    ELSE [url  |-> self.endpoint \o <<"/">> \o self.bucket \o <<"/">> \o blob_id,
          path |-> <<"/">> \o self.bucket \o <<"/">> \o blob_id]

\* _auth_headers: no headers without credentials; otherwise the signature
\* is a keyed hash of the canonical request, which stands for it here
NoHeaders == [signed |-> FALSE, method |-> "", path |-> << >>, host |-> << >>, payload |-> << >>]

S3HTTPStorage_auth_headers(self, method, path, payload) ==
    IF self.access_key = << >> \/ self.secret_key = << >>
    THEN NoHeaders
    ELSE [signed |-> TRUE, method |-> method, path |-> path, host |-> self.host,
          payload |-> payload]

\* the request put / get hands to httpx
NoRequest == [method |-> "", blob_id |-> << >>, url |-> << >>, headers |-> NoHeaders]

Request(self, method, blob_id, payload) ==
    LET made == S3HTTPStorage_make_url_and_path(self, blob_id) IN
    [method |-> method, blob_id |-> blob_id, url |-> made.url,
     headers |-> S3HTTPStorage_auth_headers(self, method, made.path, payload)]

\* the endpoints, buckets and credentials S3HTTPStorage is constructed with
Endpoints ==
    { S3_ENDPOINT,
      S3_ENDPOINT \o <<"/">>,
      <<"h", "t", "t", "p", ":", "/", "/", "s", "3", ".", "i", "o", ":", "9", "0", "0", "0">> }

Buckets == { S3_BUCKET, <<"m", "y", "-", "b">> }

Credentials == { <<S3_ACCESS_KEY, S3_SECRET_KEY>>, << << >>, << >> >> }

Instances ==
    { S3HTTPStorage_init(endpoint, bucket, keys[1], keys[2], vhost) :
          endpoint \in Endpoints, bucket \in Buckets, keys \in Credentials,
          vhost \in BOOLEAN }

\* _make_url_and_path of the storage object in use
make_url_and_path(blob_id) == S3HTTPStorage_make_url_and_path(s3, Str(blob_id))

Urls == { S3HTTPStorage_make_url_and_path(self, Str(id)).url : self \in Instances, id \in Ids }

Response(status_code, text, content) ==
    [status_code |-> status_code, text |-> text, content |-> content]

\* the statuses with which the endpoint refuses or fails a request
FaultResponses ==
    { Response(403, "Forbidden", << >>), Response(500, "Internal Server Error", << >>) }

\* what the endpoint may answer to GET url
GetResponses(objects, url) ==
    { IF objects[url].present
      THEN Response(200, "", objects[url].data)
      ELSE Response(404, "Not Found", << >>) } \cup FaultResponses

\* what the endpoint may answer to PUT url; it stores the body when it
\* answers 200 or 201
PutResponses == { Response(200, "", << >>), Response(201, "", << >>) } \cup FaultResponses

Stored(objects, url, bytes, resp) ==
    IF resp.status_code \in {200, 201}
    THEN [objects EXCEPT ![url] = DataRow(bytes)]
    ELSE objects

\* S3HTTPStorage.put without its check of the status
S3HTTPStorage_put_unchecked(resp) == Ok

\* S3HTTPStorage.put, given the response to its request
S3HTTPStorage_put(resp) ==
    IF resp.status_code \notin {200, 201} THEN RaiseRuntimeError(resp) ELSE Ok

\* S3HTTPStorage.get taking every status but 200 for an absent object
S3HTTPStorage_get_lenient(resp) ==
    IF resp.status_code = 200 THEN ReturnBytes(resp.content) ELSE ReturnNone

\* S3HTTPStorage.get, given the response to its request
S3HTTPStorage_get(resp) ==
    IF resp.status_code = 200 THEN ReturnBytes(resp.content)
    ELSE IF resp.status_code = 404 THEN ReturnNone
    ELSE RaiseRuntimeError(resp)

-----------------------------------------------------------------------------
(* Backend selection and the views *)

Backends == { "local", "db", "s3" }

\* pick_storage: the backend the configuration names; anything but "db"
\* and "s3" is the local one
pick_storage(storage_type) ==
    IF storage_type = "db" THEN "db"
    ELSE IF storage_type = "s3" THEN "s3"
    ELSE "local"

\* create_blob: the status of the response, given what save_blob did
create_blob(result) ==
    IF result.kind = "raise"
    THEN IF result.exc = "ValueError" THEN 400 ELSE 500
    ELSE 200

\* retrieve_blob: the status of the response, given what get_blob did
retrieve_blob(result) ==
    IF result.kind = "raise" THEN 500
    ELSE IF result.kind = "none" THEN 404
    ELSE 200

-----------------------------------------------------------------------------
(* Payloads *)

DataUriPrefix(mime) ==
    <<"d","a","t","a",":">> \o mime \o <<";","b","a","s","e","6","4",",">>

image_png == <<"i","m","a","g","e","/","p","n","g">>
text_plain == <<"t","e","x","t","/","p","l","a","i","n">>

\* f'data:{mime};base64,{b64}'
DataUri(mime, bytes) == DataUriPrefix(mime) \o b64encode(bytes)

\* the string 'not-base64'
not_base64 == <<"n","o","t","-","b","a","s","e","6","4">>

\* base64 with a character outside the alphabet in front
Dashed(bytes) == <<"-">> \o b64encode(bytes)

\* the payloads of the requests of Spec
Payloads ==
    { b64encode(b) : b \in Blobs(MaxLen) }
    \cup { DataUri(mime, Take(Sample, 1)) : mime \in { image_png, text_plain } }
    \cup { Dashed(Take(Sample, 1)) }
    \cup { not_base64 }

\* the payloads of the requests of SpecConc
ConcPayloads == { b64encode(b) : b \in Blobs(MaxConcLen) } \cup { not_base64 }

-----------------------------------------------------------------------------
(* State *)

\* whether bytes are stored under blob_id in the tree / at the endpoint
LocalStorage_holds(tree, blob_id) == NodeAt(tree, blob_id).kind = "file"
S3_holds(objects, blob_id) == objects[make_url_and_path(blob_id).url].present

\* the history after a put under blob_id that returned result, where held
\* says whether bytes were stored under it before
Overwriting(blob_id, held, result) ==
    [overwritten EXCEPT ![blob_id] = @ \/ (held /\ result.kind = "ok")]

\* the bytes the configured backend holds under blob_id, as a row
BackendBytes(blob_id) ==
    CASE pick_storage(STORAGE_BACKEND) = "local" ->
            IF LocalStorage_holds(fs, blob_id)
            THEN DataRow(NodeAt(fs, blob_id).data) ELSE NoRow
      [] pick_storage(STORAGE_BACKEND) = "db" -> blobs_data[blob_id]
      [] pick_storage(STORAGE_BACKEND) = "s3" -> s3_objects[make_url_and_path(blob_id).url]

NoCall ==
    [op |-> "none", id |-> << >>, payload |-> << >>, data |-> << >>,
     result |-> NoResult, http |-> << >>, gets |-> 0, code |-> 0]

\* what a finished call leaves in ret
Finished(op, id, payload, bytes, result, http, gets, code) ==
    [op |-> op, id |-> id, payload |-> payload, data |-> bytes,
     result |-> result, http |-> http, gets |-> gets, code |-> code]

Init ==
    /\ STORAGE_BACKEND \in Backends
    /\ fs = [p \in Paths |-> NoNode]
    /\ blobs_data = [id \in Ids |-> NoRow]
    /\ s3_objects = [u \in Urls |-> NoRow]
    /\ blobs_meta = [id \in Ids |-> NoMeta]
    /\ now = 0
    /\ overwritten = [id \in Ids |-> FALSE]
    /\ calls = EmptyBag
    /\ started = 0
    /\ s3 = S3HTTPStorage_init(S3_ENDPOINT, S3_BUCKET, S3_ACCESS_KEY, S3_SECRET_KEY,
                               virtual_host)
    /\ request = NoRequest
    /\ ret = NoCall

\* the state after S3HTTPStorage is constructed directly, with any endpoint,
\* bucket, credentials and addressing mode
InitAddress ==
    /\ STORAGE_BACKEND = "s3"
    /\ fs = [p \in Paths |-> NoNode]
    /\ blobs_data = [id \in Ids |-> NoRow]
    /\ s3_objects = [u \in Urls |-> NoRow]
    /\ blobs_meta = [id \in Ids |-> NoMeta]
    /\ now = 0
    /\ overwritten = [id \in Ids |-> FALSE]
    /\ calls = EmptyBag
    /\ started = 0
    /\ s3 \in Instances
    /\ request = NoRequest
    /\ ret = NoCall

-----------------------------------------------------------------------------
(* SpecBackend: the backend pick_storage constructs, called directly *)

CallLocalStoragePut(blob_id, bytes) ==
    LET r == LocalStorage_put(fs, blob_id, bytes) IN
    /\ pick_storage(STORAGE_BACKEND) = "local"
    /\ fs' = r.tree
    /\ overwritten' = Overwriting(blob_id, LocalStorage_holds(fs, blob_id), r.result)
    /\ ret' = Finished("LocalStorage.put", blob_id, << >>, bytes, r.result, << >>, 0, 0)
    /\ UNCHANGED <<s3, request, STORAGE_BACKEND, blobs_data, s3_objects, blobs_meta, now, calls, started>>

CallLocalStorageGet(blob_id) ==
    /\ pick_storage(STORAGE_BACKEND) = "local"
    /\ ret' = Finished("LocalStorage.get", blob_id, << >>, << >>,
                       LocalStorage_get(fs, blob_id), << >>, 1, 0)
    /\ UNCHANGED <<s3, request, STORAGE_BACKEND, fs, blobs_data, s3_objects, blobs_meta, now, overwritten, calls, started>>

CallDBStoragePut(blob_id, bytes) ==
    LET r == DBStorage_put(blobs_data, blob_id, bytes) IN
    /\ pick_storage(STORAGE_BACKEND) = "db"
    /\ blobs_data' = r.table
    /\ overwritten' = Overwriting(blob_id, blobs_data[blob_id].present, r.result)
    /\ ret' = Finished("DBStorage.put", blob_id, << >>, bytes, r.result, << >>, 0, 0)
    /\ UNCHANGED <<s3, request, STORAGE_BACKEND, fs, s3_objects, blobs_meta, now, calls, started>>

CallDBStorageGet(blob_id) ==
    /\ pick_storage(STORAGE_BACKEND) = "db"
    /\ ret' = Finished("DBStorage.get", blob_id, << >>, << >>,
                       DBStorage_get(blobs_data, blob_id), << >>, 1, 0)
    /\ UNCHANGED <<s3, request, STORAGE_BACKEND, fs, blobs_data, s3_objects, blobs_meta, now, overwritten, calls, started>>

CallS3HTTPStoragePut(blob_id, bytes) ==
    \E resp \in PutResponses :
        /\ pick_storage(STORAGE_BACKEND) = "s3"
        /\ s3_objects' = Stored(s3_objects, make_url_and_path(blob_id).url, bytes, resp)
        /\ overwritten' = Overwriting(blob_id, S3_holds(s3_objects, blob_id),
                                      IF resp.status_code \in {200, 201} THEN Ok ELSE NoResult)
        /\ ret' = Finished("S3HTTPStorage.put", blob_id, << >>, bytes,
                           S3HTTPStorage_put(resp), <<resp>>, 0, 0)
        /\ request' = Request(s3, "PUT", Str(blob_id), bytes)
        /\ UNCHANGED <<s3, STORAGE_BACKEND, fs, blobs_data, blobs_meta, now, calls, started>>

CallS3HTTPStorageGet(blob_id) ==
    \E resp \in GetResponses(s3_objects, make_url_and_path(blob_id).url) :
        /\ pick_storage(STORAGE_BACKEND) = "s3"
        /\ ret' = Finished("S3HTTPStorage.get", blob_id, << >>, << >>,
                           S3HTTPStorage_get(resp), <<resp>>, 1, 0)
        /\ request' = Request(s3, "GET", Str(blob_id), << >>)
        /\ UNCHANGED <<s3, STORAGE_BACKEND, fs, blobs_data, s3_objects, blobs_meta, now, overwritten, calls, started>>

NextBackend ==
    \/ \E id \in Ids, b \in Blobs(MaxLen) : CallLocalStoragePut(id, b)
    \/ \E id \in Ids : CallLocalStorageGet(id)
    \/ \E id \in Ids, b \in Blobs(MaxLen) : CallDBStoragePut(id, b)
    \/ \E id \in Ids : CallDBStorageGet(id)
    \/ \E id \in Ids, b \in Blobs(MaxLen) : CallS3HTTPStoragePut(id, b)
    \/ \E id \in Ids : CallS3HTTPStorageGet(id)

SpecBackend == Init /\ [][NextBackend]_vars

\* S3HTTPStorage constructed directly and called, one call at a time
NextAddress ==
    \/ \E id \in Ids, b \in Blobs(MaxLen) : CallS3HTTPStoragePut(id, b)
    \/ \E id \in Ids : CallS3HTTPStorageGet(id)

SpecAddress == InitAddress /\ [][NextAddress]_vars

-----------------------------------------------------------------------------
(* The blob service: each action runs a request from one await to the next *)

\* a request suspended at an await
Suspended(op, id, payload, bytes, pc, storage, existing, meta, http) ==
    [op |-> op, id |-> id, payload |-> payload, data |-> bytes, pc |-> pc,
     storage |-> storage, existing |-> existing, meta |-> meta, http |-> http]

InFlight == BagToSet(calls)

\* request c goes on as c2
Resume(c, c2) == calls' = (calls (-) SetToBag({c})) (+) SetToBag({c2})

\* request c is over with this result
Return(c, result, http, gets, code) ==
    /\ calls' = calls (-) SetToBag({c})
    /\ ret' = Finished(c.op, c.id, c.payload, c.data, result, http, gets, code)

\* a request is let in: SpecConc counts it against MaxRequests
Admit(limit, counted) ==
    /\ BagCardinality(calls) < limit
    /\ IF counted
       THEN started < MaxRequests /\ started' = started + 1
       ELSE UNCHANGED started

\* save_blob up to its first await: the payload is decoded and the backend
\* is picked
save_blob_decode(limit, payloads, counted) ==
    \E blob_id \in Ids, data_b64 \in payloads :
        LET decoded == b64decode(data_b64) IN
        /\ Admit(limit, counted)
        /\ IF ~decoded.ok
           THEN /\ ret' = Finished("save_blob", blob_id, data_b64, << >>,
                               Raise("ValueError"), << >>, 0,
                               create_blob(Raise("ValueError")))
                /\ UNCHANGED calls
           ELSE /\ calls' = calls (+) SetToBag({
                        Suspended("save_blob", blob_id, data_b64, decoded.data, "put",
                                  pick_storage(STORAGE_BACKEND), FALSE, NoMeta, << >>) })
                /\ UNCHANGED ret
        /\ UNCHANGED <<s3, request, STORAGE_BACKEND, fs, blobs_data, s3_objects, blobs_meta, now, overwritten>>

\* await storage.put(blob_id, data) on LocalStorage
save_blob_put_local(c) ==
    LET r == LocalStorage_put(fs, c.id, c.data) IN
    /\ c.op = "save_blob" /\ c.pc = "put" /\ c.storage = "local"
    /\ fs' = r.tree
    /\ overwritten' = Overwriting(c.id, LocalStorage_holds(fs, c.id), r.result)
    /\ IF r.result.kind # "raise"
       THEN Resume(c, [c EXCEPT !.pc = "meta"]) /\ UNCHANGED ret
       ELSE Return(c, r.result, c.http, 0, create_blob(r.result))
    /\ UNCHANGED <<s3, request, STORAGE_BACKEND, blobs_data, s3_objects, blobs_meta, now, started>>

\* DBStorage.put up to the await of its write: the transaction is open and
\* the row has been looked up
save_blob_put_db_read(c) ==
    /\ c.op = "save_blob" /\ c.pc = "put" /\ c.storage = "db"
    /\ Resume(c, [c EXCEPT !.pc = "db_write",
                           !.existing = DBStorage_put_read(blobs_data, c.id)])
    /\ UNCHANGED <<s3, request, STORAGE_BACKEND, fs, blobs_data, s3_objects, blobs_meta, now, overwritten, started, ret>>

\* DBStorage.put from its write to the end of its transaction
save_blob_put_db_write(c) ==
    LET r == DBStorage_put_write(blobs_data, c.existing, c.id, c.data) IN
    /\ c.op = "save_blob" /\ c.pc = "db_write"
    /\ blobs_data' = r.table
    /\ overwritten' = Overwriting(c.id, blobs_data[c.id].present, r.result)
    /\ IF r.result.kind # "raise"
       THEN Resume(c, [c EXCEPT !.pc = "meta"]) /\ UNCHANGED ret
       ELSE Return(c, r.result, c.http, 0, create_blob(r.result))
    /\ UNCHANGED <<s3, request, STORAGE_BACKEND, fs, s3_objects, blobs_meta, now, started>>

\* await storage.put(blob_id, data) on S3HTTPStorage
save_blob_put_s3(c) ==
    \E resp \in PutResponses :
        LET r == S3HTTPStorage_put(resp) IN
        /\ c.op = "save_blob" /\ c.pc = "put" /\ c.storage = "s3"
        /\ s3_objects' = Stored(s3_objects, make_url_and_path(c.id).url, c.data, resp)
        /\ overwritten' = Overwriting(c.id, S3_holds(s3_objects, c.id),
                                      IF resp.status_code \in {200, 201} THEN Ok ELSE NoResult)
        /\ IF r.kind # "raise"
           THEN Resume(c, [c EXCEPT !.pc = "meta", !.http = Append(c.http, resp)])
                /\ UNCHANGED ret
           ELSE Return(c, r, Append(c.http, resp), 0, create_blob(r))
        /\ request' = Request(s3, "PUT", Str(c.id), c.data)
        /\ UNCHANGED <<s3, STORAGE_BACKEND, fs, blobs_data, blobs_meta, now, started>>

\* save_blob recording the length of the base64 text, not of the bytes
save_blob_create_meta_encoded_size(c) ==
    LET r == BlobMeta_create(blobs_meta, c.id, Len(c.payload), STORAGE_BACKEND, now) IN
    /\ c.op = "save_blob" /\ c.pc = "meta"
    /\ blobs_meta' = r.table
    /\ now' = IF r.result.kind # "raise" THEN now + 1 ELSE now
    /\ Return(c, r.result, c.http, 0, create_blob(r.result))
    /\ UNCHANGED <<s3, request, STORAGE_BACKEND, fs, blobs_data, s3_objects, overwritten, started>>

\* size = len(data); backend = STORAGE_BACKEND; await BlobMeta.create(...)
save_blob_create_meta(c) ==
    LET r == BlobMeta_create(blobs_meta, c.id, Len(c.data), STORAGE_BACKEND, now) IN
    /\ c.op = "save_blob" /\ c.pc = "meta"
    /\ blobs_meta' = r.table
    /\ now' = IF r.result.kind # "raise" THEN now + 1 ELSE now
    /\ Return(c, r.result, c.http, 0, create_blob(r.result))
    /\ UNCHANGED <<s3, request, STORAGE_BACKEND, fs, blobs_data, s3_objects, overwritten, started>>

\* get_blob going to the backend whether or not there is a metadata row
get_blob_meta_unchecked(limit, counted) ==
    \E blob_id \in Ids :
        /\ Admit(limit, counted)
        /\ calls' = calls (+) SetToBag({
                Suspended("get_blob", blob_id, << >>, << >>, "get",
                          pick_storage(STORAGE_BACKEND), FALSE, blobs_meta[blob_id], << >>) })
        /\ UNCHANGED <<s3, request, STORAGE_BACKEND, fs, blobs_data, s3_objects, blobs_meta, now,
                       overwritten, ret>>

\* get_blob up to the await of storage.get: the metadata row is looked up
\* and, when there is one, the backend is picked
get_blob_meta(limit, counted) ==
    \E blob_id \in Ids :
        LET meta == blobs_meta[blob_id] IN
        /\ Admit(limit, counted)
        /\ IF ~meta.present
           THEN /\ ret' = Finished("get_blob", blob_id, << >>, << >>, ReturnNone,
                               << >>, 0, retrieve_blob(ReturnNone))
                /\ UNCHANGED calls
           ELSE /\ calls' = calls (+) SetToBag({
                        Suspended("get_blob", blob_id, << >>, << >>, "get",
                                  pick_storage(STORAGE_BACKEND), FALSE, meta, << >>) })
                /\ UNCHANGED ret
        /\ UNCHANGED <<s3, request, STORAGE_BACKEND, fs, blobs_data, s3_objects, blobs_meta, now, overwritten>>

\* the rest of get_blob, given what storage.get returned or raised
get_blob_return(meta, got) ==
    IF got.kind = "raise" THEN got
    ELSE IF got.kind = "none" THEN ReturnNone
    ELSE [NoResult EXCEPT !.kind = "record",
                          !.data = b64encode(got.data),
                          !.size = meta.size,
                          !.created_at = meta.created_at]

\* data = await storage.get(blob_id) on LocalStorage, and the return
get_blob_get_local(c) ==
    LET r == get_blob_return(c.meta, LocalStorage_get(fs, c.id)) IN
    /\ c.op = "get_blob" /\ c.pc = "get" /\ c.storage = "local"
    /\ Return(c, r, c.http, 1, retrieve_blob(r))
    /\ UNCHANGED <<s3, request, STORAGE_BACKEND, fs, blobs_data, s3_objects, blobs_meta, now, overwritten, started>>

\* data = await storage.get(blob_id) on DBStorage, and the return
get_blob_get_db(c) ==
    LET r == get_blob_return(c.meta, DBStorage_get(blobs_data, c.id)) IN
    /\ c.op = "get_blob" /\ c.pc = "get" /\ c.storage = "db"
    /\ Return(c, r, c.http, 1, retrieve_blob(r))
    /\ UNCHANGED <<s3, request, STORAGE_BACKEND, fs, blobs_data, s3_objects, blobs_meta, now, overwritten, started>>

\* data = await storage.get(blob_id) on S3HTTPStorage, and the return
get_blob_get_s3(c) ==
    \E resp \in GetResponses(s3_objects, make_url_and_path(c.id).url) :
        LET r == get_blob_return(c.meta, S3HTTPStorage_get(resp)) IN
        /\ c.op = "get_blob" /\ c.pc = "get" /\ c.storage = "s3"
        /\ Return(c, r, Append(c.http, resp), 1, retrieve_blob(r))
        /\ request' = Request(s3, "GET", Str(c.id), << >>)
        /\ UNCHANGED <<s3, STORAGE_BACKEND, fs, blobs_data, s3_objects, blobs_meta, now, overwritten, started>>

\* the worker running request c dies at its await: an open transaction is
\* rolled back, what was written stays
Crash(c) ==
    /\ calls' = calls (-) SetToBag({c})
    /\ UNCHANGED <<s3, request, STORAGE_BACKEND, fs, blobs_data, s3_objects, blobs_meta, now, overwritten, started, ret>>

\* one request at a time
Next ==
    \/ save_blob_decode(1, Payloads, FALSE)
    \/ get_blob_meta(1, FALSE)
    \/ \E c \in InFlight : save_blob_put_local(c)
    \/ \E c \in InFlight : save_blob_put_db_read(c)
    \/ \E c \in InFlight : save_blob_put_db_write(c)
    \/ \E c \in InFlight : save_blob_put_s3(c)
    \/ \E c \in InFlight : save_blob_create_meta(c)
    \/ \E c \in InFlight : get_blob_get_local(c)
    \/ \E c \in InFlight : get_blob_get_db(c)
    \/ \E c \in InFlight : get_blob_get_s3(c)

Spec == Init /\ [][Next]_vars

\* requests in parallel, and workers that die
NextConc ==
    \/ save_blob_decode(MaxCalls, ConcPayloads, TRUE)
    \/ get_blob_meta(MaxCalls, TRUE)
    \/ \E c \in InFlight : save_blob_put_local(c)
    \/ \E c \in InFlight : save_blob_put_db_read(c)
    \/ \E c \in InFlight : save_blob_put_db_write(c)
    \/ \E c \in InFlight : save_blob_put_s3(c)
    \/ \E c \in InFlight : save_blob_create_meta(c)
    \/ \E c \in InFlight : get_blob_get_local(c)
    \/ \E c \in InFlight : get_blob_get_db(c)
    \/ \E c \in InFlight : get_blob_get_s3(c)
    \/ \E c \in InFlight : Crash(c)

SpecConc == Init /\ [][NextConc]_vars

\* the service is restarted with another STORAGE_BACKEND in its environment:
\* the setting is read once, when the module is imported, so no request
\* is in flight when it changes; the stores keep what they hold
Reconfigure ==
    /\ calls = EmptyBag
    /\ \E storage_type \in Backends :
          /\ storage_type # STORAGE_BACKEND
          /\ STORAGE_BACKEND' = storage_type
    /\ UNCHANGED <<s3, request, fs, blobs_data, s3_objects, blobs_meta, now, overwritten, calls, started, ret>>

\* one request at a time, and restarts under another configuration
NextReconfig ==
    \/ save_blob_decode(1, ConcPayloads, TRUE)
    \/ get_blob_meta(1, TRUE)
    \/ \E c \in InFlight : save_blob_put_local(c)
    \/ \E c \in InFlight : save_blob_put_db_read(c)
    \/ \E c \in InFlight : save_blob_put_db_write(c)
    \/ \E c \in InFlight : save_blob_put_s3(c)
    \/ \E c \in InFlight : save_blob_create_meta(c)
    \/ \E c \in InFlight : get_blob_get_local(c)
    \/ \E c \in InFlight : get_blob_get_db(c)
    \/ \E c \in InFlight : get_blob_get_s3(c)
    \/ Reconfigure

SpecReconfig == Init /\ [][NextReconfig]_vars

-----------------------------------------------------------------------------
(* Vocabulary of the properties *)

\* no response in http is a refusal or a failure of the endpoint
NoFault(http) == \A i \in 1..Len(http) : http[i] \notin FaultResponses

\* request c is over after this step
Left(c) ==
    /\ BagCardinality(calls') < BagCardinality(calls)
    /\ CopiesIn(c, calls') < CopiesIn(c, calls)

\* a save_blob / get_blob call returns or raises in this step
SaveReturns(id, payload) ==
    /\ ret'.op = "save_blob" /\ ret'.id = id /\ ret'.payload = payload
    /\ \/ \E c \in InFlight :
             c.op = "save_blob" /\ c.id = id /\ c.payload = payload /\ Left(c)
       \/ calls' = calls /\ ret' # ret

GetReturns(id) ==
    /\ ret'.op = "get_blob" /\ ret'.id = id
    /\ \/ \E c \in InFlight : c.op = "get_blob" /\ c.id = id /\ Left(c)
       \/ calls' = calls /\ ret' # ret

IsB64Char(ch) == table_a2b_base64[ch] < 64

\* s is base64 as RFC 4648 writes it: quads of characters of the alphabet,
\* the last one padded with at most two "="
WellFormedBase64(s) ==
    /\ Len(s) % 4 = 0
    /\ \A i \in 1..Len(s) :
          \/ IsB64Char(s[i])
          \/ /\ s[i] = "="
             /\ i >= Len(s) - 1
             /\ s[Len(s)] = "="
             /\ IsB64Char(s[Len(s) - 2])

\* s is 'data:<mime>;base64,' followed by well-formed base64
IsDataUri(s) ==
    /\ Len(s) >= 13
    /\ SubSeq(s, 1, 5) = <<"d","a","t","a",":">>
    /\ \E k \in 6..(Len(s) - 7) :
          /\ SubSeq(s, k, k + 7) = <<";","b","a","s","e","6","4",",">>
          /\ WellFormedBase64(SubSeq(s, k + 8, Len(s)))

Mimes == { image_png, text_plain }

-----------------------------------------------------------------------------
(* The backends (SpecBackend) *)

\* C6: the outcome of S3HTTPStorage.get and .put is decided by the status of
\* the one response alone: get returns the body on 200, None on 404 and
\* raises RuntimeError with the status and the body on any other status;
\* put returns on 200 and 201 and raises RuntimeError with the status and
\* the body on any other status; each call has issued exactly one request.
C6_ObjectStoreOutcome ==
    /\ ret.op = "S3HTTPStorage.get" =>
          /\ Len(ret.http) = 1
          /\ ret.gets = 1
          /\ ret.result =
                IF ret.http[1].status_code = 200 THEN ReturnBytes(ret.http[1].content)
                ELSE IF ret.http[1].status_code = 404 THEN ReturnNone
                ELSE RaiseRuntimeError(ret.http[1])
    /\ ret.op = "S3HTTPStorage.put" =>
          /\ Len(ret.http) = 1
          /\ ret.result =
                IF ret.http[1].status_code \in {200, 201} THEN Ok
                ELSE RaiseRuntimeError(ret.http[1])

\* C6 witness: a get answered 500 raised RuntimeError carrying the 500, for
\* an object an earlier put had stored
C6_Witness ==
    /\ ret.op = "S3HTTPStorage.get"
    /\ ret.http[1].status_code = 500
    /\ ret.result.kind = "raise" /\ ret.result.status = 500
    /\ S3_holds(s3_objects, ret.id)

\* C7: LocalStorage.get returns None, and does not raise, whenever there is
\* no file at root/id, a directory made for another blob included.
C7_LocalGetAbsent ==
    (ret.op = "LocalStorage.get" /\ ~LocalStorage_holds(fs, ret.id))
        => ret.result = ReturnNone

-----------------------------------------------------------------------------
(* The service, one request at a time (Spec) *)

\* C1: a save_blob of base64(b), b not empty, under an id without a metadata
\* row completes without error, whatever was stored before, and a get_blob
\* of that id that follows returns a record whose data decodes to b
\* (the endpoint of the object store answering without a fault).
C1_SaveCompletes ==
    \A id \in Ids, b \in Blobs(MaxLen) :
        (/\ SaveReturns(id, b64encode(b))
         /\ ~blobs_meta[id].present
         /\ NoFault(ret'.http))
            => ret'.result = Ok

C1_GetFollows ==
    \A b \in Blobs(MaxLen) :
        (/\ ret.op = "save_blob" /\ ret.payload = b64encode(b) /\ ret.result = Ok
         /\ GetReturns(ret.id)
         /\ NoFault(ret'.http))
            => /\ ret'.result.kind = "record"
               /\ b64decode(ret'.result.data) = Decoded(b)

C1_RoundTrip == [][C1_SaveCompletes /\ C1_GetFollows]_vars

\* C3: a payload that is neither well-formed base64 nor a data URI wrapping
\* well-formed base64 makes save_blob raise ValueError (status 400) before
\* it goes to the backend: no request with such a payload is ever past the
\* decoding.
C3_InvalidInput ==
    /\ \A c \in InFlight :
          c.op = "save_blob" => (WellFormedBase64(c.payload) \/ IsDataUri(c.payload))
    /\ (ret.op = "save_blob" /\ ~WellFormedBase64(ret.payload) /\ ~IsDataUri(ret.payload))
          => (ret.result = Raise("ValueError") /\ ret.code = 400)

\* C4: the bare string base64(b) and the data URI 'data:<mime>;base64,' +
\* base64(b) both decode to b: these are the bytes save_blob hands to the
\* backend, whichever form the payload has.
C4_DataUri ==
    \A b \in Blobs(MaxLen) :
        LET forms == { b64encode(b) } \cup { DataUri(mime, b) : mime \in Mimes } IN
        /\ \A c \in InFlight :
              (c.op = "save_blob" /\ c.payload \in forms) => c.data = b
        /\ (ret.op = "save_blob" /\ ret.payload \in forms)
              => (ret.result # Raise("ValueError") /\ ret.data = b)

\* C5: a save_blob under an id that has a metadata row overwrites the bytes
\* of the backend with the decoded payload, leaves the metadata row as it
\* was and returns, with the id (status 200), rather than raise.
C5_Step ==
    \A c \in InFlight :
        (/\ c.op = "save_blob" /\ Left(c)
         /\ blobs_meta[c.id].present
         /\ NoFault(ret'.http))
            => /\ ret'.result = Ok /\ ret'.code = 200 /\ ret'.id = c.id
               /\ blobs_meta' = blobs_meta
               /\ BackendBytes(c.id)' = DataRow(c.data)

C5_ReStore == [][C5_Step]_vars

-----------------------------------------------------------------------------
(* The service under parallel requests and dying workers (SpecConc) *)

\* C2: a get_blob of an id that has no metadata row returns None (status
\* 404), does not raise and has not read the backend, also when a save_blob
\* of that id died after it had written the bytes.
C2_NotFound ==
    (ret.op = "get_blob" /\ ~blobs_meta[ret.id].present)
        => /\ ret.result = ReturnNone
           /\ ret.code = 404
           /\ ret.gets = 0
           /\ ret.http = << >>

\* C2 witness: get_blob returned None for an id whose bytes are in the
\* backend, left there by a save_blob that is no longer running and never
\* wrote the metadata row
C2_Witness ==
    /\ ret.op = "get_blob" /\ ret.result = ReturnNone
    /\ ~blobs_meta[ret.id].present
    /\ BackendBytes(ret.id).present
    /\ calls = EmptyBag

\* C8: two DBStorage.put of the same id running concurrently both complete
\* without error, and leave the row of the id.
C8_AtomicUpsert ==
    /\ ~(ret.op = "save_blob" /\ ret.result = RaiseIntegrityError("blobs_data.id"))
    /\ \A c \in InFlight :
          (c.op = "save_blob" /\ c.storage = "db" /\ c.pc = "meta")
              => blobs_data[c.id].present

\* C9: an id that has a metadata row has bytes in the backend, in every
\* state: save_blob writes the bytes first, so a save_blob that dies or
\* fails leaves at most bytes without a metadata row.
C9_BytesBeforeMeta ==
    \A id \in Ids : blobs_meta[id].present => BackendBytes(id).present

\* C9 witness: one id has its metadata row and its bytes while another has
\* bytes and no row, its save_blob having died between the two writes
C9_Witness ==
    /\ calls = EmptyBag
    /\ \E id \in Ids : blobs_meta[id].present /\ BackendBytes(id).present
    /\ \E id \in Ids : ~blobs_meta[id].present /\ BackendBytes(id).present

\* C10 as claimed: whenever get_blob returns a record, its size is the byte
\* length of the bytes its data field encodes.
C10_SizeIsLength ==
    (ret.op = "get_blob" /\ ret.result.kind = "record")
        => ret.result.size = Len(b64decode(ret.result.data).data)

\* C10 as amended: whenever get_blob returns a record for an id under which
\* bytes were never written over bytes already stored, its size is the byte
\* length of the bytes its data field encodes.
C10_SizeOfFirstWrite ==
    (ret.op = "get_blob" /\ ret.result.kind = "record" /\ ~overwritten[ret.id])
        => ret.result.size = Len(b64decode(ret.result.data).data)

\* C10 witness: get_blob returned a record, with the size of its bytes, for
\* an id whose bytes were written once, while another save_blob of the id
\* is in flight
C10_Witness ==
    /\ ret.op = "get_blob" /\ ret.result.kind = "record"
    /\ ~overwritten[ret.id]
    /\ ret.result.size = Len(b64decode(ret.result.data).data)
    /\ \E c \in InFlight : c.op = "save_blob" /\ c.id = ret.id

-----------------------------------------------------------------------------
(* The service across restarts under another configuration (SpecReconfig) *)

\* C11: get_blob reads the backend the configuration in force names and
\* never the one the metadata row records: for an id that has a metadata
\* row it returns a record of the bytes that backend holds under the id,
\* and None when that backend holds no bytes under it (the endpoint of the
\* object store answering without a fault).
C11_Step ==
    \A c \in InFlight :
        (/\ c.op = "get_blob" /\ Left(c)
         /\ NoFault(ret'.http))
            => ret'.result =
                  IF BackendBytes(c.id).present
                  THEN get_blob_return(blobs_meta[c.id],
                                       ReturnBytes(BackendBytes(c.id).data))
                  ELSE ReturnNone

C11_CurrentBackend == [][C11_Step]_vars

-----------------------------------------------------------------------------
(* S3HTTPStorage constructed with any endpoint, bucket and mode (SpecAddress) *)

\* C12: what S3HTTPStorage requests is what it signs, in both addressing
\* modes: path-style requests scheme://endpoint-host/bucket/id and signs
\* the path /bucket/id, virtual-host-style requests
\* scheme://bucket.endpoint-host/id and signs the path /id, and in each
\* mode the host and the path of the URL requested are the host and the
\* path of the signed canonical request.
C12_Addressing ==
    (request.method # "" /\ request.headers.signed) =>
        LET endpoint == urlparse(s3.endpoint)
            origin   == endpoint.scheme \o <<":", "/", "/">>
            sent     == urlparse(request.url)
        IN  /\ IF s3.virtual_host
               THEN /\ request.url = origin \o s3.bucket \o <<".">> \o endpoint.netloc
                                          \o <<"/">> \o request.blob_id
                    /\ request.headers.path = <<"/">> \o request.blob_id
               ELSE /\ request.url = origin \o endpoint.netloc \o <<"/">> \o s3.bucket
                                          \o <<"/">> \o request.blob_id
                    /\ request.headers.path = <<"/">> \o s3.bucket \o <<"/">> \o request.blob_id
            /\ sent.netloc = request.headers.host
            /\ sent.path = request.headers.path

=============================================================================
